---- MODULE Spec2Model ----
(***************************************************************************)
(* Model of cmder/main.go: the inventory of the images embedded in a PDF.  *)
(* The document (pdfcpu's model.Context) is an input drawn in Init; the    *)
(* program is run twice on it, so that two scans can be compared.          *)
(***************************************************************************)
EXTENDS Integers, Sequences, FiniteSets, TLC

\* Bounds of the model.
MaxPages == 2
MaxEntries == 2

AllNames == <<"Im1", "Im2", "Im3", "Im4">>
Names == {AllNames[i] : i \in 1..MaxEntries}

(***************************************************************************)
(* types.Object values                                                     *)
(***************************************************************************)
Nil == [t |-> "nil"]
Free == [t |-> "free"]
Ref(n) == [t |-> "ref", n |-> n, g |-> 0]
IntV(v) == [t |-> "int", v |-> v]
NameV(s) == [t |-> "name", v |-> s]
ArrayV(a) == [t |-> "array", a |-> a]
DictV(f) == [t |-> "dict", d |-> f]
StreamV(f, filters, raw) == [t |-> "stream", d |-> f, filters |-> filters, raw |-> raw]
EmptyDict == [k \in {} |-> Nil]

NoErr == << >>
Errorf(msg, page, cause) == <<[msg |-> msg, page |-> page]>> \o cause

(***************************************************************************)
(* The documents the scans are run on                                      *)
(***************************************************************************)
ImageA ==
    StreamV([Type |-> NameV("XObject"), Subtype |-> NameV("Image"),
             Width |-> IntV(4), Height |-> IntV(3),
             ColorSpace |-> NameV("DeviceRGB"), BitsPerComponent |-> IntV(8)],
            <<"DCTDecode">>, 5)
ImageB ==
    StreamV([Type |-> NameV("XObject"), Subtype |-> NameV("Image"),
             Height |-> IntV(2),
             ColorSpace |-> ArrayV(<<NameV("Indexed"), NameV("DeviceRGB"), IntV(255), Ref(4)>>)],
            <<"ASCII85Decode", "DCTDecode">>, 9)
FormC ==
    StreamV([Type |-> NameV("XObject"), Subtype |-> NameV("Form")], << >>, 2)

\* What an XObject dictionary may hold under a name.
EntryValues == {Ref(5), Ref(6), Ref(7), Ref(3), Ref(4), IntV(1)}
XDicts == UNION {[S -> EntryValues] : S \in SUBSET Names}
ScanXDicts ==
    {[n \in {AllNames[1], AllNames[2]} |-> IF n = AllNames[1] THEN Ref(5) ELSE Ref(6)],
     [n \in {AllNames[1], AllNames[2]} |-> IF n = AllNames[1] THEN Ref(7) ELSE Ref(5)]}

\* The cross-reference table: object number -> object.
Objs(xd) ==
    <<DictV([XObject |-> DictV(xd)]), Ref(1), Free, IntV(7),
      ImageA, ImageB, FormC, DictV(xd), Ref(8)>>

PageKinds(xd) ==
    {Free, DictV(EmptyDict), DictV([Resources |-> IntV(7)]),
     DictV([Resources |-> DictV(EmptyDict)])}
    \cup {DictV([Resources |-> Ref(n)]) : n \in {1, 2, 3, 4}}
    \cup {DictV([Resources |-> DictV([XObject |-> v])]) :
            v \in {IntV(7), Ref(3), Ref(4), Ref(9), Ref(8), DictV(xd)}}

Doc(pages, xd) == [pageCount |-> Len(pages), pages |-> pages, objs |-> Objs(xd)]

ScanDocs ==
    UNION {{Doc(pages, xd) : pages \in UNION {[1..n -> PageKinds(xd)] : n \in 0..MaxPages}} :
             xd \in ScanXDicts}
PageDocs ==
    UNION {{Doc(<<pk>>, xd) : pk \in PageKinds(xd)} : xd \in XDicts}
Docs == ScanDocs \cup PageDocs

(***************************************************************************)
(* The Document Model (pdfcpu), as main.go calls it                        *)
(***************************************************************************)
\* The document after PageDict has merged the page's resources into its dict.
Consolidate(d, pageNr) ==
    LET pd == d.pages[pageNr]
        res == IF "Resources" \in DOMAIN pd.d THEN pd.d["Resources"] ELSE Nil
        tgt == IF res.t = "ref" /\ res.n \in 1..Len(d.objs) THEN d.objs[res.n] ELSE res
        merged == IF tgt.t = "dict" THEN tgt ELSE DictV(EmptyDict)
    IN  [d EXCEPT !.pages[pageNr] = DictV([k \in DOMAIN pd.d \cup {"Resources"} |->
                                            IF k = "Resources" THEN merged ELSE pd.d[k]])]

\* ctx.XRefTable.PageDict(pageNr, consolidateRes)
PageDictCall(d, pageNr, consolidateRes) ==
    IF pageNr <= 0 \/ pageNr > d.pageCount
    THEN [pageDict |-> Nil, err |-> Errorf("pdfcpu: page not found", 0, NoErr), ctx |-> d]
    ELSE IF d.pages[pageNr].t # "dict"
    THEN [pageDict |-> Nil, err |-> Errorf("pdfcpu: corrupt page tree", 0, NoErr), ctx |-> d]
    ELSE [pageDict |-> d.pages[pageNr], err |-> NoErr,
          ctx |-> IF consolidateRes THEN Consolidate(d, pageNr) ELSE d]

PageDict_consolidate(d, pageNr) == PageDictCall(d, pageNr, TRUE)
\* line 69: the page dictionary is asked for with consolidateRes = false
PageDict(d, pageNr) == PageDictCall(d, pageNr, FALSE)

\* types.Dict.Find
Find(dict, key) ==
    IF key \in DOMAIN dict.d THEN [found |-> TRUE, v |-> dict.d[key]]
    ELSE [found |-> FALSE, v |-> Nil]

\* ctx.XRefTable.Dereference: one lookup in the cross-reference table
Dereference(d, ir) ==
    IF ir.n \in 1..Len(d.objs) /\ d.objs[ir.n].t # "free"
    THEN [obj |-> d.objs[ir.n], err |-> NoErr]
    ELSE [obj |-> Nil, err |-> Errorf("pdfcpu: dereference", 0, NoErr)]

\* ctx.XRefTable.DereferenceXObjectDict: the object as a stream dictionary
DereferenceXObjectDict(d, ir) ==
    LET r == Dereference(d, ir)
    IN  IF r.err # NoErr THEN [sd |-> Nil, err |-> r.err]
        ELSE IF r.obj.t # "stream"
        THEN [sd |-> Nil, err |-> Errorf("pdfcpu: no stream dict", 0, NoErr)]
        ELSE [sd |-> r.obj, err |-> NoErr]

\* types.StreamDict.Image
Image(sd) ==
    "Subtype" \in DOMAIN sd.d /\ sd.d["Subtype"] = NameV("Image")

\* types.Dict.IntEntry / NameEntry / ArrayEntry: the entry, or nil
IntEntry(sd, key) ==
    IF key \in DOMAIN sd.d /\ sd.d[key].t = "int" THEN sd.d[key] ELSE Nil
NameEntry(sd, key) ==
    IF key \in DOMAIN sd.d /\ sd.d[key].t = "name" THEN sd.d[key] ELSE Nil
ArrayEntry(sd, key) ==
    IF key \in DOMAIN sd.d /\ sd.d[key].t = "array" THEN sd.d[key].a ELSE << >>

\* strings.Join(filters, ", "), as the sequence of its pieces
RECURSIVE Join(_)
Join(filters) ==
    IF Len(filters) <= 1 THEN filters
    ELSE <<Head(filters), ", ">> \o Join(Tail(filters))

(***************************************************************************)
(* cmder/main.go                                                           *)
(***************************************************************************)
\* A lookup that follows references until it meets something else.
RECURSIVE Chase(_, _, _, _)
Chase(d, v, derefs, fuel) ==
    IF v.t = "dict" THEN [ok |-> TRUE, dict |-> v, derefs |-> derefs]
    ELSE IF v.t = "ref" /\ fuel > 0
    THEN LET r == Dereference(d, v)
         IN  IF r.err = NoErr THEN Chase(d, r.obj, Append(derefs, v.n), fuel - 1)
             ELSE [ok |-> FALSE, dict |-> Nil, derefs |-> Append(derefs, v.n)]
    ELSE [ok |-> FALSE, dict |-> Nil, derefs |-> derefs]

ResDict_chase(d, resources) == Chase(d, resources, << >>, Len(d.objs))
\* lines 81-98: the Resources value as a dictionary, after at most one dereference
ResDict(d, resources) ==
    IF resources.t = "dict" THEN [ok |-> TRUE, dict |-> resources, derefs |-> << >>]
    ELSE IF resources.t = "ref"
    THEN LET r == Dereference(d, resources)
         IN  IF r.err = NoErr /\ r.obj.t = "dict"
             THEN [ok |-> TRUE, dict |-> r.obj, derefs |-> <<resources.n>>]
             ELSE [ok |-> FALSE, dict |-> Nil, derefs |-> <<resources.n>>]
    ELSE [ok |-> FALSE, dict |-> Nil, derefs |-> << >>]

XObject_chase(d, xObjectDict) == Chase(d, xObjectDict, << >>, Len(d.objs))
\* lines 106-123: the XObject value as a dictionary, after at most one dereference
XObject(d, xObjectDict) ==
    IF xObjectDict.t = "dict" THEN [ok |-> TRUE, dict |-> xObjectDict, derefs |-> << >>]
    ELSE IF xObjectDict.t = "ref"
    THEN LET r == Dereference(d, xObjectDict)
         IN  IF r.err = NoErr /\ r.obj.t = "dict"
             THEN [ok |-> TRUE, dict |-> r.obj, derefs |-> <<xObjectDict.n>>]
             ELSE [ok |-> FALSE, dict |-> Nil, derefs |-> <<xObjectDict.n>>]
    ELSE [ok |-> FALSE, dict |-> Nil, derefs |-> << >>]

\* lines 152-195
ExtractImageInfo(pageNr, name, ir, sd) ==
    LET width == IntEntry(sd, "Width")
        height == IntEntry(sd, "Height")
        cs == NameEntry(sd, "ColorSpace")
        csArray == ArrayEntry(sd, "ColorSpace")
        bpc == IntEntry(sd, "BitsPerComponent")
    IN  [PageNr |-> pageNr, ObjectNr |-> ir.n, GenNr |-> ir.g, Name |-> name,
         Size |-> sd.raw,
         Width |-> IF width # Nil THEN width.v ELSE 0,
         Height |-> IF height # Nil THEN height.v ELSE 0,
         ColorSpace |-> IF cs # Nil THEN cs.v
                        ELSE IF Len(csArray) > 0 /\ csArray[1].t = "name"
                        THEN csArray[1].v ELSE "",
         BitsPerComp |-> IF bpc # Nil THEN bpc.v ELSE 0,
         Filter |-> IF Len(sd.filters) > 0 THEN Join(sd.filters) ELSE << >>]

\* The entry counted without the image test of line 139.
XObjectEntry_anyStream(d, pageNr, name, obj) ==
    IF obj.t # "ref" THEN << >>
    ELSE LET x == DereferenceXObjectDict(d, obj)
         IN  IF x.err # NoErr THEN << >>
             ELSE <<ExtractImageInfo(pageNr, name, obj, x.sd)>>
\* lines 127-145: what one entry of the XObject dictionary appends to images
XObjectEntry(d, pageNr, name, obj) ==
    IF obj.t # "ref" THEN << >>
    ELSE LET x == DereferenceXObjectDict(d, obj)
         IN  IF x.err # NoErr THEN << >>
             ELSE IF ~Image(x.sd) THEN << >>
             ELSE <<ExtractImageInfo(pageNr, name, obj, x.sd)>>

\* The range left (break) at the first entry that contributes nothing.
RECURSIVE RangeXObject_break(_, _, _, _)
RangeXObject_break(d, pageNr, xObject, order) ==
    IF order = << >> THEN << >>
    ELSE IF Head(order) \notin DOMAIN xObject.d
    THEN RangeXObject_break(d, pageNr, xObject, Tail(order))
    ELSE LET e == XObjectEntry(d, pageNr, Head(order), xObject.d[Head(order)])
         IN  IF e = << >> THEN << >>
             ELSE e \o RangeXObject_break(d, pageNr, xObject, Tail(order))
\* lines 126-146: the range over the dictionary, its keys met in `order`
RECURSIVE RangeXObject(_, _, _, _)
RangeXObject(d, pageNr, xObject, order) ==
    IF order = << >> THEN << >>
    ELSE (IF Head(order) \in DOMAIN xObject.d
          THEN XObjectEntry(d, pageNr, Head(order), xObject.d[Head(order)])
          ELSE << >>)
         \o RangeXObject(d, pageNr, xObject, Tail(order))

Returned(images, err, ctx, resDerefs, xoDerefs, xObject) ==
    [images |-> images, err |-> err, ctx |-> ctx,
     resDerefs |-> resDerefs, xoDerefs |-> xoDerefs, xObject |-> xObject]

\* lines 74-148: extractImagesFromPage once it holds the page dictionary
ImagesOfPageDict(ctx, pageDict, pageNr, order) ==
    LET resources == Find(pageDict, "Resources")
    IN  IF ~resources.found THEN Returned(<< >>, NoErr, ctx, << >>, << >>, Nil)
        ELSE LET resDict == ResDict(ctx, resources.v)
        IN  IF ~resDict.ok THEN Returned(<< >>, NoErr, ctx, resDict.derefs, << >>, Nil)
        ELSE LET xObjectDict == Find(resDict.dict, "XObject")
        IN  IF ~xObjectDict.found
            THEN Returned(<< >>, NoErr, ctx, resDict.derefs, << >>, Nil)
        ELSE LET xObject == XObject(ctx, xObjectDict.v)
        IN  IF ~xObject.ok
            THEN Returned(<< >>, NoErr, ctx, resDict.derefs, xObject.derefs, Nil)
            ELSE Returned(RangeXObject(ctx, pageNr, xObject.dict, order), NoErr, ctx,
                          resDict.derefs, xObject.derefs, xObject.dict)

\* The traversal with a missing XObject dictionary reported as an error.
ExtractImagesFromPage_strict(d, pageNr, order) ==
    LET pd == PageDict(d, pageNr)
        r == ImagesOfPageDict(pd.ctx, pd.pageDict, pageNr, order)
    IN  IF pd.err # NoErr
        THEN Returned(<< >>, Errorf("failed to get page dict", 0, pd.err), pd.ctx,
                      << >>, << >>, Nil)
        ELSE IF r.xObject = Nil
        THEN [r EXCEPT !.err = Errorf("page has no XObject dictionary", 0, NoErr)]
        ELSE r
\* lines 65-149
ExtractImagesFromPage(d, pageNr, order) ==
    LET pd == PageDict(d, pageNr)
    IN  IF pd.err # NoErr
        THEN Returned(<< >>, Errorf("failed to get page dict", 0, pd.err), pd.ctx,
                      << >>, << >>, Nil)
        ELSE ImagesOfPageDict(pd.ctx, pd.pageDict, pageNr, order)

AddTotal_assign(total, images) == Len(images)
\* lines 48-55: the running total after a page
AddTotal(total, images) ==
    IF Len(images) > 0 THEN total + Len(images) ELSE total
\* lines 49-53: what the loop prints for a page
PrintPage(pageNr, images) ==
    IF Len(images) > 0
    THEN <<[k |-> "page", page |-> pageNr, n |-> Len(images)]>>
         \o [i \in 1..Len(images) |-> [k |-> "image", index |-> i, img |-> images[i]]]
    ELSE << >>

\* The orders in which a range over a map may meet its keys.
Orders(S) ==
    {o \in [1..Cardinality(S) -> S] : \A i, j \in 1..Cardinality(S) : i # j => o[i] # o[j]}

(***************************************************************************)
(* The state: the document, the position of the run, and what it has done  *)
(***************************************************************************)
VARIABLES doc, run, pc, pageNr, totalImages, out, err, calls, first
vars == <<doc, run, pc, pageNr, totalImages, out, err, calls, first>>

Init ==
    /\ doc \in Docs
    /\ run = 1
    /\ pc = "main"
    /\ pageNr = 0
    /\ totalImages = 0
    /\ out = << >>
    /\ err = NoErr
    /\ calls = << >>
    /\ first = [pc |-> "none"]

\* lines 232-248: main, up to its call of extractImagesFromPDF
Main ==
    /\ pc = "main"
    /\ out' = <<[k |-> "banner", line |-> 247], [k |-> "banner", line |-> 248]>>
    /\ pc' = "read"
    /\ UNCHANGED <<doc, run, pageNr, totalImages, err, calls, first>>

\* lines 217-225: the file is read into the context
ExtractImagesFromPDF ==
    /\ pc = "read"
    /\ pc' = "scan"
    /\ UNCHANGED <<doc, run, pageNr, totalImages, out, err, calls, first>>

\* The scan without the test of lines 32-34.
ExtractAllImages_noCheck ==
    /\ pc = "scan"
    /\ out' = out \o <<[k |-> "header", n |-> doc.pageCount], [k |-> "rule"]>>
    /\ totalImages' = 0
    /\ pageNr' = 1
    /\ pc' = "loop"
    /\ UNCHANGED <<doc, run, err, calls, first>>

\* The scan with its pages counted from 0.
ExtractAllImages_fromZero ==
    /\ pc = "scan"
    /\ IF doc.pageCount = 0
       THEN /\ err' = Errorf("PDF has no pages", 0, NoErr)
            /\ pc' = "failed"
            /\ UNCHANGED <<out, pageNr, totalImages>>
       ELSE /\ out' = out \o <<[k |-> "header", n |-> doc.pageCount], [k |-> "rule"]>>
            /\ totalImages' = 0
            /\ pageNr' = 0
            /\ pc' = "loop"
            /\ err' = err
    /\ UNCHANGED <<doc, run, calls, first>>

\* lines 29-42: the page count, the header, the loop's first page
ExtractAllImages ==
    /\ pc = "scan"
    /\ IF doc.pageCount = 0
       THEN /\ err' = Errorf("PDF has no pages", 0, NoErr)
            /\ pc' = "failed"
            /\ UNCHANGED <<out, pageNr, totalImages>>
       ELSE /\ out' = out \o <<[k |-> "header", n |-> doc.pageCount], [k |-> "rule"]>>
            /\ totalImages' = 0
            /\ pageNr' = 1
            /\ pc' = "loop"
            /\ err' = err
    /\ UNCHANGED <<doc, run, calls, first>>

\* The loop going on to the next page when a page fails.
LoopPage_continue ==
    /\ pc = "loop"
    /\ pageNr <= doc.pageCount
    /\ \E order \in Orders(Names) :
         LET r == ExtractImagesFromPage(doc, pageNr, order)
         IN  /\ doc' = r.ctx
             /\ calls' = Append(calls, [page |-> pageNr, images |-> r.images, err |-> r.err,
                                        resDerefs |-> r.resDerefs, xoDerefs |-> r.xoDerefs,
                                        xObject |-> r.xObject])
             /\ out' = out \o PrintPage(pageNr, r.images)
             /\ totalImages' = AddTotal(totalImages, r.images)
             /\ pageNr' = pageNr + 1
             /\ UNCHANGED <<err, pc>>
    /\ UNCHANGED <<run, first>>

\* lines 42-56: one turn of the page loop
LoopPage ==
    /\ pc = "loop"
    /\ pageNr <= doc.pageCount
    /\ \E order \in Orders(Names) :
         LET r == ExtractImagesFromPage(doc, pageNr, order)
         IN  /\ doc' = r.ctx
             /\ calls' = Append(calls, [page |-> pageNr, images |-> r.images, err |-> r.err,
                                        resDerefs |-> r.resDerefs, xoDerefs |-> r.xoDerefs,
                                        xObject |-> r.xObject])
             /\ IF r.err # NoErr
                THEN /\ err' = Errorf("failed to extract images from page", pageNr, r.err)
                     /\ pc' = "failed"
                     /\ UNCHANGED <<out, totalImages, pageNr>>
                ELSE /\ out' = out \o PrintPage(pageNr, r.images)
                     /\ totalImages' = AddTotal(totalImages, r.images)
                     /\ pageNr' = pageNr + 1
                     /\ UNCHANGED <<err, pc>>
    /\ UNCHANGED <<run, first>>

\* lines 58-61: the loop is over, the total is printed
LoopExit ==
    /\ pc = "loop"
    /\ pageNr > doc.pageCount
    /\ out' = out \o <<[k |-> "rule"], [k |-> "total", n |-> totalImages]>>
    /\ pc' = "done"
    /\ UNCHANGED <<doc, run, pageNr, totalImages, err, calls, first>>

\* lines 225-227 and 251-253: the error is wrapped and the process exits with 1
Fatal ==
    /\ pc = "failed"
    /\ err' = Errorf("failed to extract images", 0, err)
    /\ pc' = "exited"
    /\ UNCHANGED <<doc, run, pageNr, totalImages, out, calls, first>>

\* The program is started again on the same file.
Rerun ==
    /\ pc \in {"done", "exited"}
    /\ run = 1
    /\ first' = [pc |-> pc, totalImages |-> totalImages, err |-> err, out |-> out,
                 calls |-> calls]
    /\ run' = 2
    /\ pc' = "main"
    /\ pageNr' = 0
    /\ totalImages' = 0
    /\ out' = << >>
    /\ err' = NoErr
    /\ calls' = << >>
    /\ UNCHANGED doc

Next ==
    \/ Main
    \/ ExtractImagesFromPDF
    \/ ExtractAllImages
    \/ LoopPage
    \/ LoopExit
    \/ Fatal
    \/ Rerun

Spec == Init /\ [][Next]_vars

(***************************************************************************)
(* What the document holds, read off the document itself                   *)
(***************************************************************************)
Obj(n) == IF n \in 1..Len(doc.objs) THEN doc.objs[n] ELSE Free
\* A value as a dictionary after one dereference at most, else Nil.
OneHop(v) ==
    IF v.t = "dict" THEN v
    ELSE IF v.t = "ref" /\ Obj(v.n).t = "dict" THEN Obj(v.n)
    ELSE Nil
PageFails(k) == doc.pages[k].t # "dict"
HasResources(k) == "Resources" \in DOMAIN doc.pages[k].d
PageResources(k) == IF HasResources(k) THEN OneHop(doc.pages[k].d["Resources"]) ELSE Nil
HasXObject(k) == PageResources(k) # Nil /\ "XObject" \in DOMAIN PageResources(k).d
PageXObject(k) == IF HasXObject(k) THEN OneHop(PageResources(k).d["XObject"]) ELSE Nil
IsImageEntry(v) ==
    /\ v.t = "ref"
    /\ Obj(v.n).t = "stream"
    /\ "Subtype" \in DOMAIN Obj(v.n).d
    /\ Obj(v.n).d["Subtype"] = NameV("Image")
ImageNames(x) == IF x = Nil THEN {} ELSE {n \in DOMAIN x.d : IsImageEntry(x.d[n])}
NamesOf(images) == {images[j].Name : j \in 1..Len(images)}
Succeeded(i) == calls[i].err = NoErr
Ended == pc \in {"done", "exited"}
OutKinds == {out[j].k : j \in 1..Len(out)}
RECURSIVE SumImages(_)
SumImages(cs) == IF cs = << >> THEN 0 ELSE Len(Head(cs).images) + SumImages(Tail(cs))

\* C1: a page's records are exactly the entries of its resolved XObject
\* dictionary that are indirect references to image streams, one record each.
C1_RecordsAreImageEntries ==
    \A i \in 1..Len(calls) :
        Succeeded(i) =>
            /\ Len(calls[i].images) = Cardinality(ImageNames(PageXObject(calls[i].page)))
            /\ NamesOf(calls[i].images) = ImageNames(PageXObject(calls[i].page))
C1_Witness ==
    \E i \in 1..Len(calls) :
        /\ Succeeded(i)
        /\ Len(calls[i].images) = 1
        /\ PageXObject(calls[i].page) # Nil
        /\ \E n, m \in DOMAIN PageXObject(calls[i].page).d :
              /\ PageXObject(calls[i].page).d[n] = Ref(7)
              /\ PageXObject(calls[i].page).d[m] = Ref(5)

\* C2: when page k has no page dictionary the run fails with k in its error,
\* no later page is traversed and no total is printed.
C2_PageDictFailureAborts ==
    \A k \in 1..doc.pageCount :
        PageFails(k) =>
            /\ pc # "done"
            /\ "total" \notin OutKinds
            /\ \A i \in 1..Len(calls) :
                  /\ calls[i].page <= k
                  /\ calls[i].page = k =>
                        /\ ~Succeeded(i)
                        /\ pc \in {"failed", "exited"}
                        /\ \E j \in 1..Len(err) :
                              /\ err[j].msg = "failed to extract images from page"
                              /\ err[j].page = k
C2_Witness ==
    /\ pc = "exited"
    /\ Len(calls) = 2
    /\ PageFails(2)
    /\ calls[1].images # << >>

\* C3 as stated: with a page count of 0 the run has failed with nothing printed.
C3_NothingEmitted ==
    (doc.pageCount = 0 /\ pc \in {"failed", "exited"}) => out = << >>
\* C3 amended: with a page count of 0 the run fails, no page is traversed and
\* nothing but the two banner lines of main is printed.
C3_ZeroPagesFailFast ==
    doc.pageCount = 0 =>
        /\ pc \notin {"loop", "done"}
        /\ calls = << >>
        /\ OutKinds \subseteq {"banner"}
        /\ pc \in {"failed", "exited"} =>
              err[Len(err)] = [msg |-> "PDF has no pages", page |-> 0]
        /\ first.pc \in {"none", "exited"}
C3_Witness == doc.pageCount = 0 /\ pc = "exited" /\ Len(out) = 2

\* C4: a page without Resources, or whose Resources is neither a dictionary nor
\* a reference that one dereference turns into a dictionary, gives no record
\* and no error.
ResourcesAbsentOrWrong(k) == ~PageFails(k) /\ PageResources(k) = Nil
C4_NoResourcesNoRecords ==
    \A i \in 1..Len(calls) :
        ResourcesAbsentOrWrong(calls[i].page) =>
            Succeeded(i) /\ calls[i].images = << >>
C4_Witness ==
    \E i \in 1..Len(calls) :
        /\ ResourcesAbsentOrWrong(calls[i].page)
        /\ HasResources(calls[i].page)
        /\ doc.pages[calls[i].page].d["Resources"] = Ref(2)
        /\ ImageNames(OneHop(Obj(1).d["XObject"])) # {}

\* C5: the traversal of a page fails exactly when the page has no page
\* dictionary; a missing or wrong Resources or XObject value gives no record,
\* and an entry that is no image gives no record of its name.
C5_OnlyPageDictFails ==
    \A i \in 1..Len(calls) :
        /\ ~Succeeded(i) <=> PageFails(calls[i].page)
        /\ (~PageFails(calls[i].page) /\ PageXObject(calls[i].page) = Nil) =>
              calls[i].images = << >>
        /\ (~PageFails(calls[i].page) /\ PageXObject(calls[i].page) # Nil) =>
              \A n \in DOMAIN PageXObject(calls[i].page).d :
                  ~IsImageEntry(PageXObject(calls[i].page).d[n]) =>
                      n \notin NamesOf(calls[i].images)
C5_Witness ==
    \E i \in 1..Len(calls) :
        /\ Succeeded(i)
        /\ PageXObject(calls[i].page) # Nil
        /\ \E n, m \in DOMAIN PageXObject(calls[i].page).d :
              /\ PageXObject(calls[i].page).d[n] = Ref(3)
              /\ PageXObject(calls[i].page).d[m] = Ref(4)

\* C6: in the loop the running total is the sum of the record counts of the
\* pages traversed so far, and the total printed at the end is the sum over
\* the pages 1..pageCount.
C6_TotalIsSum ==
    /\ pc \in {"loop", "done"} => totalImages = SumImages(calls)
    /\ pc = "done" =>
          /\ Len(calls) = doc.pageCount
          /\ \A i \in 1..Len(calls) : calls[i].page = i
          /\ out[Len(out)] = [k |-> "total", n |-> SumImages(calls)]
C6_Witness ==
    /\ pc = "done"
    /\ Len(calls) = 2
    /\ Len(calls[1].images) = 2
    /\ Len(calls[2].images) = 2

\* C7: two runs on the same document end alike, with the same total and, page
\* by page, the same records, whatever order each run met the entries in.
C7_TwoRunsAgree ==
    (run = 2 /\ Ended) =>
        /\ first.pc = pc
        /\ first.totalImages = totalImages
        /\ first.err = err
        /\ Len(first.calls) = Len(calls)
        /\ \A i \in 1..Len(calls) :
              /\ first.calls[i].page = calls[i].page
              /\ Len(first.calls[i].images) = Len(calls[i].images)
              /\ {first.calls[i].images[j] : j \in 1..Len(first.calls[i].images)}
                    = {calls[i].images[j] : j \in 1..Len(calls[i].images)}
C7_Witness ==
    /\ run = 2
    /\ pc = "done"
    /\ \E i \in 1..Len(calls) :
          /\ Len(calls[i].images) = 2
          /\ first.calls[i].images # calls[i].images

\* C8: no step of a run, successful or failing, changes the document.
C8_DocumentUnchanged == [][doc' = doc]_vars
C8_Witness ==
    /\ run = 2
    /\ pc = "exited"
    /\ Len(calls) = 2
    /\ calls[1].images # << >>
    /\ calls[1].resDerefs # << >>
    /\ first.pc = "exited"

\* C9: the pages are traversed in the order 1, 2, ..., each once, a page only
\* after the page before it succeeded, and all of them before the total.
C9_PagesInOrder ==
    /\ \A i \in 1..Len(calls) :
          /\ calls[i].page = i
          /\ i < Len(calls) => Succeeded(i)
    /\ Len(calls) <= doc.pageCount
    /\ "total" \in OutKinds =>
          /\ Len(calls) = doc.pageCount
          /\ \A i \in 1..Len(calls) : Succeeded(i)
          /\ pc = "done"
    /\ pc = "done" => out[Len(out)].k = "total"
C9_Witness ==
    /\ pc = "done"
    /\ Len(calls) = 2
    /\ doc.pageCount = 2

\* C10: the Resources lookup and the XObject lookup dereference once at most:
\* never for a direct dictionary, once for a reference, and a reference that
\* does not lead to a dictionary in one step gives no record.
LookedUpOnce(v, derefs) ==
    /\ Len(derefs) <= 1
    /\ v.t = "ref" => derefs = <<v.n>>
    /\ v.t # "ref" => derefs = << >>
C10_OneHopOnly ==
    \A i \in 1..Len(calls) :
        LET k == calls[i].page
        IN  Succeeded(i) =>
              /\ HasResources(k) =>
                    /\ LookedUpOnce(doc.pages[k].d["Resources"], calls[i].resDerefs)
                    /\ PageResources(k) = Nil =>
                          calls[i].images = << >> /\ calls[i].xoDerefs = << >>
              /\ ~HasResources(k) => calls[i].resDerefs = << >>
              /\ HasXObject(k) =>
                    /\ LookedUpOnce(PageResources(k).d["XObject"], calls[i].xoDerefs)
                    /\ PageXObject(k) = Nil => calls[i].images = << >>
              /\ ~HasXObject(k) => calls[i].xoDerefs = << >>
C10_Witness ==
    \E i \in 1..Len(calls) :
        /\ Succeeded(i)
        /\ HasXObject(calls[i].page)
        /\ PageResources(calls[i].page).d["XObject"] = Ref(9)
        /\ calls[i].xoDerefs = <<9>>
        /\ ImageNames(Obj(8)) # {}
====
